---------------------------- MODULE Spec2Model ----------------------------
(***************************************************************************)
(* Georeferencing, single-pixel sampling and tile windowing of the COG     *)
(* viewer (src/geotiff.js and its near-duplicate src/unnamed/part_003).    *)
(*                                                                         *)
(* JavaScript numbers are modelled as exact rationals extended with NaN,   *)
(* +Infinity and -Infinity.  Division by zero, the propagation of NaN and  *)
(* the comparisons with NaN (always false) follow IEEE 754; the rounding   *)
(* of binary64 and the sign of zero are not represented.                   *)
(***************************************************************************)
EXTENDS Integers, Sequences, FiniteSets, TLC

(***************************************************************************)
(* Bounds of the model.                                                    *)
(***************************************************************************)
\* bbox corners are integers of 0..MaxCoord; requests reach one unit beyond.
MaxCoord == 2
\* raster width and height range over 1..MaxDim.
MaxDim == 2
\* number of samples in the band returned for a tile (tileSize * tileSize
\* in the program).
BandLen == 2

(***************************************************************************)
(* JavaScript numbers.                                                     *)
(***************************************************************************)
Abs(i) == IF i < 0 THEN -i ELSE i

RECURSIVE GCD(_, _)
GCD(a, b) == IF b = 0 THEN a ELSE GCD(b, a % b)

\* The rational n/d (d # 0) in lowest terms with a positive denominator.
Num(n, d) ==
    LET s == IF d < 0 THEN -1 ELSE 1
        g == GCD(Abs(n), Abs(d))
    IN  [k |-> "num", n |-> (s * n) \div g, d |-> (s * d) \div g]

FromInt(i) == [k |-> "num", n |-> i, d |-> 1]
NaN    == [k |-> "nan", n |-> 0, d |-> 1]
PosInf == [k |-> "inf", n |-> 1, d |-> 1]
NegInf == [k |-> "inf", n |-> -1, d |-> 1]
\* null / undefined
Null   == [k |-> "null", n |-> 0, d |-> 1]

IsNaN(a)    == a.k = "nan"
IsFinite(a) == a.k = "num"
Sign(a)     == IF a.n > 0 THEN 1 ELSE IF a.n < 0 THEN -1 ELSE 0
Inf(s)      == IF s < 0 THEN NegInf ELSE PosInf

\* a + b
JsAdd(a, b) ==
    IF IsNaN(a) \/ IsNaN(b) THEN NaN
    ELSE IF a.k = "inf" /\ b.k = "inf" THEN (IF a.n = b.n THEN a ELSE NaN)
    ELSE IF a.k = "inf" THEN a
    ELSE IF b.k = "inf" THEN b
    ELSE Num(a.n * b.d + b.n * a.d, a.d * b.d)

JsNeg(a) == IF IsNaN(a) THEN NaN ELSE [a EXCEPT !.n = -a.n]

\* a - b
JsSub(a, b) == JsAdd(a, JsNeg(b))

\* a * b
JsMul(a, b) ==
    IF IsNaN(a) \/ IsNaN(b) THEN NaN
    ELSE IF a.k = "inf" \/ b.k = "inf"
         THEN (IF Sign(a) = 0 \/ Sign(b) = 0 THEN NaN ELSE Inf(Sign(a) * Sign(b)))
    ELSE Num(a.n * b.n, a.d * b.d)

\* a / b
JsDiv(a, b) ==
    IF IsNaN(a) \/ IsNaN(b) THEN NaN
    ELSE IF a.k = "inf" THEN (IF b.k = "inf" THEN NaN
                              ELSE Inf(IF Sign(b) < 0 THEN -Sign(a) ELSE Sign(a)))
    ELSE IF b.k = "inf" THEN FromInt(0)
    ELSE IF b.n = 0 THEN (IF a.n = 0 THEN NaN ELSE Inf(Sign(a)))
    ELSE Num(a.n * b.d, a.d * b.n)

\* a < b, a <= b, a >= b, a === b: false as soon as an operand is NaN.
JsLt(a, b) ==
    /\ ~IsNaN(a) /\ ~IsNaN(b)
    /\ IF a.k = "inf" \/ b.k = "inf"
       THEN \/ a = NegInf /\ b # NegInf
            \/ b = PosInf /\ a # PosInf
       ELSE a.n * b.d < b.n * a.d
JsEq(a, b) == ~IsNaN(a) /\ ~IsNaN(b) /\ a = b
JsLe(a, b) == JsLt(a, b) \/ JsEq(a, b)
JsGe(a, b) == JsLe(b, a)
JsGt(a, b) == JsLt(b, a)

\* Math.floor, Math.ceil, Math.round, Math.max, Math.min
MathFloor(a) == IF IsFinite(a) THEN FromInt(a.n \div a.d) ELSE a
MathCeil(a)  == JsNeg(MathFloor(JsNeg(a)))
MathRound(a) == MathFloor(JsAdd(a, Num(1, 2)))
MathMax(a, b) == IF IsNaN(a) \/ IsNaN(b) THEN NaN ELSE IF JsLt(a, b) THEN b ELSE a
MathMin(a, b) == IF IsNaN(a) \/ IsNaN(b) THEN NaN ELSE IF JsLt(b, a) THEN b ELSE a

(***************************************************************************)
(* The opened raster: what openGeoTIFF caches for a URL.                   *)
(***************************************************************************)
\* bbox = <<minX, minY, maxX, maxY>>.  A file may carry a zero pixel scale,
\* which gives a degenerate box (minX = maxX or minY = maxY).
Boxes ==
    { <<FromInt(x0), FromInt(y0), FromInt(x1), FromInt(y1)>> :
        x0 \in 0..MaxCoord, x1 \in 0..MaxCoord,
        y0 \in 0..MaxCoord, y1 \in 0..MaxCoord }
Rasters ==
    { r \in [width : 1..MaxDim, height : 1..MaxDim, bbox : Boxes] :
        r.bbox[1].n <= r.bbox[3].n /\ r.bbox[2].n <= r.bbox[4].n }

(***************************************************************************)
(* State.                                                                  *)
(***************************************************************************)
VARIABLES
    info,        \* the opened raster {width, height, bbox} of the loaded URL
    pc,          \* position of the request in progress
    lat, lon,    \* the clicked coordinate of the sample request
    pix,         \* {px, py} computed for the sample request
    reads,       \* windows passed to image.readRasters by the request
    rasters,     \* the bands image.readRasters returned to the sample request
    raw,         \* what sampleGeoTIFFAtLatLng returned
    tile,        \* {lonMin, latMin, lonMax, latMax}: the tile's rectangle
    clip,        \* {lonMin, latMin, lonMax, latMax}: the rectangle clamped to bbox
    frac,        \* <<x0, y0, x1, y1>>: its corners in pixel coordinates
    win,         \* <<wx0, wy0, wx1, wy1>>: the integer window of the tile
    band,        \* rasters[0] as returned for the tile
    canvas,      \* the tile's pixels once putImageData ran, <<>> before
    normDivs,    \* evaluations of (v - minv) / (maxv - minv) for the tile
    doneCalls    \* the calls of the tile's done callback, in order

sampleVars == <<lat, lon, pix, rasters, raw>>
tileVars == <<tile, clip, frac, win, band, canvas, normDivs, doneCalls>>
rasterVars == <<info, pc, reads, sampleVars, tileVars>>

\* The page around the raster code: its controls, its globals and the
\* handlers in progress (defined with the handlers below).
VARIABLES
    variableEl,      \* value of the variable <select>
    depthEl,         \* value of the depth <select>
    variant,         \* which of the near-duplicate scripts the page runs
    activeLayer,     \* the layer the page holds, 0 for null
    activeLayerMeta, \* {url, variable} of the layer, NoMeta for null
    layersOnMap,     \* the raster layers added to the map and not removed
    sampleValueEl,   \* what the sample read-out (or the popup) shows
    geoTiffCache,    \* url -> the opened record, 0 when the url is absent
    fromUrlCalls,    \* url -> number of GeoTIFF.fromUrl opens performed
    tasks,           \* the user events so far and their handlers' positions
    events,          \* number of user events so far
    tiles,           \* the createTile calls of the layer, in flight or done
    geoLayer,        \* georaster page: the layer held, 0 for null
    loadBtn,         \* georaster page: {disabled, innerText} of the Load button
    currentFilename, \* georaster page: file name of the load started last
    lastImage,       \* last-opened-raster script: url of lastImage, <<>> for null
    opacityEl,       \* value of the opacity slider
    layerOpacity     \* options.opacity of the grid layer created last, None before

selVars == <<variableEl, depthEl>>
uiVars == <<variant, activeLayer, activeLayerMeta, layersOnMap, sampleValueEl,
            geoTiffCache, fromUrlCalls, tasks, events>>
altVars == <<geoLayer, loadBtn, currentFilename, lastImage>>
sliderVars == <<opacityEl, layerOpacity>>
pageVars == <<selVars, uiVars, tiles, altVars, sliderVars>>
vars == <<rasterVars, pageVars>>

\* Values a band of the raster can hold: NaN (no-data) or a number.
SampleValues == {NaN, FromInt(7), FromInt(9)}

\* No request made yet / no value.
None == [k |-> "none", n |-> 0, d |-> 1]
NoPix == [px |-> None, py |-> None]
NoRect == [lonMin |-> None, latMin |-> None, lonMax |-> None, latMax |-> None]
NoQuad == <<None, None, None, None>>
\* The call ended by a rejected promise (the read failed).
Thrown == [k |-> "throw", n |-> 0, d |-> 1]

(***************************************************************************)
(* latLonToPixel (geotiff.js 30-37, part_003 86-91).                       *)
(***************************************************************************)
\* Variant: the result clamped into the raster.
latLonToPixel_clamped(lo, la, bbox, width, height) ==
    LET x == JsMul(JsDiv(JsSub(lo, bbox[1]), JsSub(bbox[3], bbox[1])), FromInt(width))
        y == JsMul(JsDiv(JsSub(bbox[4], la), JsSub(bbox[4], bbox[2])), FromInt(height))
    IN  [px |-> MathMax(FromInt(0), MathMin(FromInt(width - 1), MathFloor(x))),
         py |-> MathMax(FromInt(0), MathMin(FromInt(height - 1), MathFloor(y)))]

\* Variant: Math.ceil in place of Math.floor.
latLonToPixel_ceil(lo, la, bbox, width, height) ==
    LET x == JsMul(JsDiv(JsSub(lo, bbox[1]), JsSub(bbox[3], bbox[1])), FromInt(width))
        y == JsMul(JsDiv(JsSub(bbox[4], la), JsSub(bbox[4], bbox[2])), FromInt(height))
    IN  [px |-> MathCeil(x), py |-> MathCeil(y)]

\* Variant: the Y axis not inverted (lat - minY in place of maxY - lat).
latLonToPixel_noFlip(lo, la, bbox, width, height) ==
    LET x == JsMul(JsDiv(JsSub(lo, bbox[1]), JsSub(bbox[3], bbox[1])), FromInt(width))
        y == JsMul(JsDiv(JsSub(la, bbox[2]), JsSub(bbox[4], bbox[2])), FromInt(height))
    IN  [px |-> MathFloor(x), py |-> MathFloor(y)]

latLonToPixel(lo, la, bbox, width, height) ==
    LET minX == bbox[1]
        minY == bbox[2]
        maxX == bbox[3]
        maxY == bbox[4]
        x == JsMul(JsDiv(JsSub(lo, minX), JsSub(maxX, minX)), FromInt(width))
        y == JsMul(JsDiv(JsSub(maxY, la), JsSub(maxY, minY)), FromInt(height))
    IN  [px |-> MathFloor(x), py |-> MathFloor(y)]

\* The guard of sampleGeoTIFFAtLatLng:
\*   if (px < 0 || py < 0 || px >= width || py >= height) return null;
\* Variant: > in place of >= on the upper edges.
sampleGuard_strict(p, width, height) ==
    \/ JsLt(p.px, FromInt(0))
    \/ JsLt(p.py, FromInt(0))
    \/ JsGt(p.px, FromInt(width))
    \/ JsGt(p.py, FromInt(height))

sampleGuard(p, width, height) ==
    \/ JsLt(p.px, FromInt(0))
    \/ JsLt(p.py, FromInt(0))
    \/ JsGe(p.px, FromInt(width))
    \/ JsGe(p.py, FromInt(height))

\* The window of the single-pixel read: [px, py, px + 1, py + 1].
pixelWindow(p) == <<p.px, p.py, JsAdd(p.px, FromInt(1)), JsAdd(p.py, FromInt(1))>>

\* Coordinates a click can carry: the integer grid around the box and the
\* centres of the raster's pixel columns / rows.
GridCoords == { FromInt(i) : i \in -1..(MaxCoord + 1) }
CentreLon(r, i) ==
    Num(2 * r.width * r.bbox[1].n + (2 * i + 1) * (r.bbox[3].n - r.bbox[1].n),
        2 * r.width)
CentreLat(r, j) ==
    Num(2 * r.height * r.bbox[4].n - (2 * j + 1) * (r.bbox[4].n - r.bbox[2].n),
        2 * r.height)
ClickLons(r) == GridCoords \cup { CentreLon(r, i) : i \in 0..(r.width - 1) }
ClickLats(r) == GridCoords \cup { CentreLat(r, j) : j \in 0..(r.height - 1) }

(***************************************************************************)
(* sampleGeoTIFFAtLatLng (geotiff.js 40-58, part_003 94-106).              *)
(***************************************************************************)
\* From the call to the first suspension on image.readRasters, or to the
\* early return of the guard.
sampleGeoTIFFAtLatLng(la, lo) ==
    /\ pc = "idle"
    /\ LET p == latLonToPixel(lo, la, info.bbox, info.width, info.height)
       IN  /\ lat' = la
           /\ lon' = lo
           /\ pix' = p
           /\ IF sampleGuard(p, info.width, info.height)
              THEN /\ raw' = Null
                   /\ reads' = <<>>
                   /\ pc' = "sampleDone"
              ELSE /\ raw' = None
                   /\ reads' = <<pixelWindow(p)>>
                   /\ pc' = "sampleRead"
    /\ UNCHANGED <<info, rasters, tileVars>>
    /\ UNCHANGED pageVars

\* What a single-pixel read can resolve to: no band at all (rasters[0] is
\* undefined), an empty band, or a band holding the pixel's value.
PixelReads == {<<>>, << <<>> >>} \cup { << <<v>> >> : v \in SampleValues }

\* const band0 = rasters[0];
\* if (!band0 || band0.length === 0) return null;
\* return band0[0];
sampleResult(rs) ==
    IF Len(rs) = 0 THEN Null
    ELSE IF Len(rs[1]) = 0 THEN Null
    ELSE rs[1][1]

SampleReadOk(rs) ==
    /\ pc = "sampleRead"
    /\ rasters' = rs
    /\ raw' = sampleResult(rs)
    /\ pc' = "sampleDone"
    /\ UNCHANGED <<info, lat, lon, pix, reads, tileVars>>
    /\ UNCHANGED pageVars

\* readRasters rejects: the rejection propagates out of the function.
SampleReadFail ==
    /\ pc = "sampleRead"
    /\ raw' = Thrown
    /\ pc' = "sampleDone"
    /\ UNCHANGED <<info, lat, lon, pix, reads, rasters, tileVars>>
    /\ UNCHANGED pageVars

(***************************************************************************)
(* createTile of createGeoTiffGridLayer (geotiff.js 78-180; part_003       *)
(* 116-140 tileWindow and 145-215 createTile).                             *)
(***************************************************************************)
\* Rectangles the map hands to createTile: nw = (latMax, lonMin) and
\* se = (latMin, lonMax) of a tile, lonMin < lonMax and latMin < latMax.
TileRects ==
    { t \in [lonMin : GridCoords, latMin : GridCoords,
             lonMax : GridCoords, latMax : GridCoords] :
        JsLt(t.lonMin, t.lonMax) /\ JsLt(t.latMin, t.latMax) }

\* clamp tile bounds to raster bbox
clampToBbox(t, bbox) ==
    [lonMin |-> MathMax(t.lonMin, bbox[1]),
     lonMax |-> MathMin(t.lonMax, bbox[3]),
     latMin |-> MathMax(t.latMin, bbox[2]),
     latMax |-> MathMin(t.latMax, bbox[4])]

\* Variant: < in place of <=.
tileOutside_strict(c) == JsLt(c.lonMax, c.lonMin) \/ JsLt(c.latMax, c.latMin)

\* if (lonMax <= lonMin || latMax <= latMin): tile outside raster
tileOutside(c) == JsLe(c.lonMax, c.lonMin) \/ JsLe(c.latMax, c.latMin)

\* convert lon/lat extents to pixel windows: <<x0, y0, x1, y1>>
pixelExtent(c, bbox, width, height) ==
    LET minX == bbox[1]
        minY == bbox[2]
        maxX == bbox[3]
        maxY == bbox[4]
    IN  << JsMul(JsDiv(JsSub(c.lonMin, minX), JsSub(maxX, minX)), FromInt(width)),
           JsMul(JsDiv(JsSub(maxY, c.latMax), JsSub(maxY, minY)), FromInt(height)),
           JsMul(JsDiv(JsSub(c.lonMax, minX), JsSub(maxX, minX)), FromInt(width)),
           JsMul(JsDiv(JsSub(maxY, c.latMin), JsSub(maxY, minY)), FromInt(height)) >>

\* Variant: the far edges floored like the near ones.
integerWindow_floor(f, width, height) ==
    << MathMax(FromInt(0), MathFloor(f[1])),
       MathMax(FromInt(0), MathFloor(f[2])),
       MathMin(FromInt(width), MathFloor(f[3])),
       MathMin(FromInt(height), MathFloor(f[4])) >>

\* Variant: every edge rounded to the nearest integer.
integerWindow_round(f, width, height) ==
    << MathMax(FromInt(0), MathRound(f[1])),
       MathMax(FromInt(0), MathRound(f[2])),
       MathMin(FromInt(width), MathRound(f[3])),
       MathMin(FromInt(height), MathRound(f[4])) >>

\* clamp integer window: <<wx0, wy0, wx1, wy1>>
integerWindow(f, width, height) ==
    << MathMax(FromInt(0), MathFloor(f[1])),
       MathMax(FromInt(0), MathFloor(f[2])),
       MathMin(FromInt(width), MathCeil(f[3])),
       MathMin(FromInt(height), MathCeil(f[4])) >>

\* From the call of createTile to the suspension on image.readRasters, or
\* to done(null, tile) for a tile outside the raster.
createTile(t) ==
    /\ pc = "idle"
    /\ tile' = t
    /\ LET c == clampToBbox(t, info.bbox)
           f == pixelExtent(c, info.bbox, info.width, info.height)
       IN  /\ clip' = c
           /\ IF tileOutside(c)
              THEN /\ doneCalls' = <<"ok">>
                   /\ pc' = "tileDone"
                   /\ UNCHANGED <<frac, win, reads>>
              ELSE /\ frac' = f
                   /\ win' = integerWindow(f, info.width, info.height)
                   /\ reads' = <<win'>>
                   /\ pc' = "tileRead"
                   /\ UNCHANGED doneCalls
    /\ UNCHANGED <<info, sampleVars, band, canvas, normDivs>>
    /\ UNCHANGED pageVars

\* v != null && !Number.isNaN(v)
validSample(v) == v # Null /\ v # None /\ ~IsNaN(v)

\* minv / maxv after the scan of band[1..i], from Infinity / -Infinity.
RECURSIVE scanMin(_, _)
scanMin(b, i) ==
    IF i = 0 THEN PosInf
    ELSE LET m == scanMin(b, i - 1)
         IN  IF validSample(b[i]) /\ JsLt(b[i], m) THEN b[i] ELSE m
RECURSIVE scanMax(_, _)
scanMax(b, i) ==
    IF i = 0 THEN NegInf
    ELSE LET m == scanMax(b, i - 1)
         IN  IF validSample(b[i]) /\ JsGt(b[i], m) THEN b[i] ELSE m

\* Variant: the constant band not tested.
featureless_noEq(minv, maxv) == ~IsFinite(minv) \/ ~IsFinite(maxv)

\* if (!isFinite(minv) || !isFinite(maxv) || minv === maxv): nothing to draw
featureless(minv, maxv) == ~IsFinite(minv) \/ ~IsFinite(maxv) \/ JsEq(minv, maxv)

\* data[idx+3] of a painted sample (geotiff.js; part_003 writes
\* Math.round(255 * opacity) instead).
tileAlpha == 230

\* A store into the Uint8ClampedArray of the image data.
clampByte(a) ==
    IF ~IsFinite(a) THEN (IF a = PosInf THEN 255 ELSE 0)
    ELSE IF a.n < 0 THEN 0 ELSE IF a.n > 255 * a.d THEN 255
    ELSE MathRound(a).n

\* The pixel written for sample v: transparent black for no-data, else the
\* grey Math.round(255 * (v - minv) / (maxv - minv)).
paintPixel(v, minv, maxv) ==
    IF ~validSample(v)
    THEN [c |-> 0, a |-> 0]
    ELSE LET norm == JsDiv(JsSub(v, minv), JsSub(maxv, minv))
             val  == MathRound(JsMul(FromInt(255), norm))
         IN  [c |-> clampByte(val), a |-> tileAlpha]

\* Tile bands: tileSize * tileSize samples in the program.
TileBands == [1..BandLen -> SampleValues]

\* Variant: the featureless window returns without calling done.
TileReadOk_silent(b) ==
    /\ pc = "tileRead"
    /\ band' = b
    /\ LET minv == scanMin(b, Len(b))
           maxv == scanMax(b, Len(b))
       IN  IF featureless(minv, maxv)
           THEN UNCHANGED <<canvas, normDivs, doneCalls>>
           ELSE /\ canvas' = [i \in 1..Len(b) |-> paintPixel(b[i], minv, maxv)]
                /\ normDivs' = Cardinality({i \in 1..Len(b) : validSample(b[i])})
                /\ doneCalls' = Append(doneCalls, "ok")
    /\ pc' = "tileDone"
    /\ UNCHANGED <<info, reads, sampleVars, tile, clip, frac, win>>
    /\ UNCHANGED pageVars

\* readRasters resolves with the resampled band.
TileReadOk(b) ==
    /\ pc = "tileRead"
    /\ band' = b
    /\ LET minv == scanMin(b, Len(b))
           maxv == scanMax(b, Len(b))
       IN  IF featureless(minv, maxv)
           THEN UNCHANGED <<canvas, normDivs>>
           ELSE /\ canvas' = [i \in 1..Len(b) |-> paintPixel(b[i], minv, maxv)]
                /\ normDivs' = Cardinality({i \in 1..Len(b) : validSample(b[i])})
    /\ doneCalls' = Append(doneCalls, "ok")
    /\ pc' = "tileDone"
    /\ UNCHANGED <<info, reads, sampleVars, tile, clip, frac, win>>
    /\ UNCHANGED pageVars

\* Variant: the rejection swallowed, the tile reported as a success.
TileReadFail_swallowed ==
    /\ pc = "tileRead"
    /\ doneCalls' = Append(doneCalls, "ok")
    /\ pc' = "tileDone"
    /\ UNCHANGED <<info, reads, sampleVars, tile, clip, frac, win, band, canvas, normDivs>>
    /\ UNCHANGED pageVars

\* readRasters rejects: done(err, tile).
TileReadFail ==
    /\ pc = "tileRead"
    /\ doneCalls' = Append(doneCalls, "err")
    /\ pc' = "tileDone"
    /\ UNCHANGED <<info, reads, sampleVars, tile, clip, frac, win, band, canvas, normDivs>>
    /\ UNCHANGED pageVars

\* The request is over; the next one starts from scratch.
Finish ==
    /\ pc \in {"sampleDone", "tileDone"}
    /\ pc' = "idle"
    /\ lat' = None /\ lon' = None /\ pix' = NoPix
    /\ reads' = <<>> /\ rasters' = <<>> /\ raw' = None
    /\ tile' = NoRect /\ clip' = NoRect /\ frac' = NoQuad /\ win' = NoQuad
    /\ band' = <<>> /\ canvas' = <<>> /\ normDivs' = 0 /\ doneCalls' = <<>>
    /\ UNCHANGED info
    /\ UNCHANGED pageVars

(***************************************************************************)
(* The page: controls, globals and event log (map.js 16-58, part_003       *)
(* 12-58).                                                                 *)
(***************************************************************************)
\* user events (Load, Clear and map clicks) in one run of the page.
MaxEvents == 3

\* keys of variableMeta and of ranges in filenameFor
Variables == {"TN", "TP", "TK"}
Depths == {"K1", "K2"}

\* repoBase + filenameFor(variable, depth): one URL per (variable, depth).
cogUrlFor(variable, depth) == <<variable, depth>>
Urls == { cogUrlFor(v, d) : v \in Variables, d \in Depths }

\* variableMeta[variable].multiplier
multiplier(variable) ==
    CASE variable = "TN" -> Num(1, 100)
      [] variable = "TP" -> Num(1, 1000)
      [] variable = "TK" -> Num(1, 100)

\* activeLayerMeta = null
NoMeta == [url |-> <<>>, variable |-> ""]

\* The scripts that define the load / clear / click handlers over
\* createGeoTiffGridLayer: map.js (61-123, and again 488-567) and part_003.
Variants == {"map", "p3"}

\* An entry of the event log: the event's kind, the url and variable its
\* handler captured, the handler's position ("open": suspended on
\* GeoTIFF.fromUrl, "read": suspended on image.readRasters, "done",
\* "failed"), the (lat, lon) of a click until it is used, the readRasters
\* calls it made, the opened record it got and, in the last-opened-raster
\* script, the url of the image it read from and the window it asked for.
NoTask == [kind |-> "none", url |-> <<>>, variable |-> "", pos |-> "none",
           at |-> <<>>, nReads |-> 0, rec |-> 0, image |-> <<>>, window |-> <<>>]

\* The read-out: a fixed text, or the scaled value with its raw value.
Text(t) == [text |-> t, scaled |-> None, raw |-> None]

\* scaled.toFixed(4): the decimal with four digits nearest to a.
toFixed4(a) ==
    IF IsFinite(a) THEN Num(MathRound(JsMul(a, FromInt(10000))).n, 10000) ELSE a

\* The dash the Clear handler writes into the read-out.
Dash == Text("-")

\* loadBtn.disabled and loadBtn.innerText
Button(disabled, innerText) == [disabled |-> disabled, innerText |-> innerText]

\* The slider untouched at full opacity, no grid layer created.
SliderIdle == opacityEl = 100 /\ layerOpacity = None

\* The page before any user event.
PageIdle ==
    /\ variableEl = "TN" /\ depthEl = "K1"
    /\ activeLayer = 0 /\ activeLayerMeta = NoMeta /\ layersOnMap = {}
    /\ sampleValueEl = Dash
    /\ geoTiffCache = [u \in Urls |-> 0]
    /\ fromUrlCalls = [u \in Urls |-> 0]
    /\ tasks = [i \in 1..MaxEvents |-> NoTask]
    /\ events = 0
    /\ tiles = <<>>
    /\ geoLayer = 0
    /\ loadBtn = Button(FALSE, "Load / Refresh")
    /\ currentFilename = <<>>
    /\ lastImage = <<>>

\* No request in progress.
RasterIdle ==
    /\ pc = "idle"
    /\ lat = None /\ lon = None /\ pix = NoPix
    /\ reads = <<>> /\ rasters = <<>> /\ raw = None
    /\ tile = NoRect /\ clip = NoRect /\ frac = NoQuad /\ win = NoQuad
    /\ band = <<>> /\ canvas = <<>> /\ normDivs = 0 /\ doneCalls = <<>>

Init ==
    /\ info \in Rasters
    /\ RasterIdle
    /\ variant = "map"
    /\ PageIdle
    /\ SliderIdle

Next ==
    \/ \E la \in ClickLats(info), lo \in ClickLons(info) : sampleGeoTIFFAtLatLng(la, lo)
    \/ \E rs \in PixelReads : SampleReadOk(rs)
    \/ SampleReadFail
    \/ \E t \in TileRects : createTile(t)
    \/ \E b \in TileBands : TileReadOk(b)
    \/ TileReadFail
    \/ Finish

Spec == Init /\ [][Next]_vars

(***************************************************************************)
(* Vocabulary of the properties.                                           *)
(***************************************************************************)
InSample == pc \in {"sampleRead", "sampleDone"}

\* minX < maxX and minY < maxY
NonDegenerate(r) == r.bbox[1].n < r.bbox[3].n /\ r.bbox[2].n < r.bbox[4].n

\* isInBounds(px, py): 0 <= px < width and 0 <= py < height, over integers.
IsInt(a) == a.k = "num" /\ a.d = 1
IsInBounds(p, r) ==
    /\ IsInt(p.px) /\ 0 <= p.px.n /\ p.px.n < r.width
    /\ IsInt(p.py) /\ 0 <= p.py.n /\ p.py.n < r.height

\* q <= (num / den) < q + 1 for an integer q and den > 0.
IsFloorOf(q, num, den) == q * den <= num /\ num < (q + 1) * den

\* (lat, lon) against the box, by cross-multiplication (lat, lon rational,
\* the corners integers).
StrictlyInside(la, lo, r) ==
    /\ r.bbox[1].n * lo.d < lo.n /\ lo.n < r.bbox[3].n * lo.d
    /\ r.bbox[2].n * la.d < la.n /\ la.n < r.bbox[4].n * la.d
Outside(la, lo, r) ==
    \/ lo.n < r.bbox[1].n * lo.d \/ lo.n > r.bbox[3].n * lo.d
    \/ la.n < r.bbox[2].n * la.d \/ la.n > r.bbox[4].n * la.d

(***************************************************************************)
(* C1.  On a non-degenerate raster latLonToPixel returns                   *)
(* px = floor((lon - minX) / (maxX - minX) * width) and                    *)
(* py = floor((maxY - lat) / (maxY - minY) * height), unclamped; the box   *)
(* (100, -5, 120, 5), 200 x 100, at lat 0, lon 110 gives (100, 50).        *)
(***************************************************************************)
C1_PixelIsFloor ==
    /\ (InSample /\ NonDegenerate(info)) =>
          /\ IsInt(pix.px) /\ IsInt(pix.py)
          /\ IsFloorOf(pix.px.n,
                       (lon.n - info.bbox[1].n * lon.d) * info.width,
                       lon.d * (info.bbox[3].n - info.bbox[1].n))
          /\ IsFloorOf(pix.py.n,
                       (info.bbox[4].n * lat.d - lat.n) * info.height,
                       lat.d * (info.bbox[4].n - info.bbox[2].n))
    /\ latLonToPixel(FromInt(110), FromInt(0),
                     <<FromInt(100), FromInt(-5), FromInt(120), FromInt(5)>>, 200, 100)
         = [px |-> FromInt(100), py |-> FromInt(50)]

\* A request whose pixel falls outside the raster on both axes, returned
\* as computed.
C1_Witness ==
    /\ InSample /\ NonDegenerate(info)
    /\ pix.px.n < 0 /\ pix.py.n >= info.height

(***************************************************************************)
(* C2.  sampleGeoTIFFAtLatLng: a pixel that is not in bounds gives no-data *)
(* (null) and no raster read; a pixel in bounds gives exactly one read,    *)
(* of the window [px, py, px + 1, py + 1], and the first value of band 0   *)
(* is returned.                                                            *)
(***************************************************************************)
\* What a completed single-pixel read hands back: band0[0], or null when
\* band 0 is missing or empty.
FirstOfBand0 ==
    IF Len(rasters) > 0 /\ Len(rasters[1]) > 0 THEN rasters[1][1] ELSE Null

C2_SampleContract ==
    /\ pc = "sampleRead" =>
          /\ IsInBounds(pix, info)
          /\ reads = << <<pix.px, pix.py, FromInt(pix.px.n + 1), FromInt(pix.py.n + 1)>> >>
    /\ pc = "sampleDone" =>
          IF ~IsInBounds(pix, info)
          THEN raw = Null /\ reads = <<>>
          ELSE /\ reads = << <<pix.px, pix.py, FromInt(pix.px.n + 1), FromInt(pix.py.n + 1)>> >>
               /\ raw \in {Thrown, FirstOfBand0}

\* The same contract on the rasters whose box is not degenerate.
SampleContractOnValidBox == NonDegenerate(info) => C2_SampleContract

(***************************************************************************)
(* C3.  On a degenerate box (minX = maxX or minY = maxY) the sampler       *)
(* returns no-data for every (lat, lon): no read carries a non-finite      *)
(* pixel coordinate and no call ends with anything but null.               *)
(***************************************************************************)
C3_DegenerateIsNoData ==
    (InSample /\ ~NonDegenerate(info)) =>
        /\ \A k \in 1..Len(reads) : \A c \in 1..4 : IsFinite(reads[k][c])
        /\ pc = "sampleDone" => raw = Null

C5_OutsideIsNoData ==
    (InSample /\ NonDegenerate(info) /\ Outside(lat, lon, info))
        => /\ ~IsInBounds(pix, info)
           /\ pc = "sampleDone" /\ raw = Null /\ reads = <<>>

\* Just beyond the east edge: px = width exactly.
C5_Witness ==
    /\ pc = "sampleDone" /\ NonDegenerate(info) /\ Outside(lat, lon, info)
    /\ pix.px.n = info.width /\ raw = Null

InTile == pc \in {"tileRead", "tileDone"}

\* Order of two rationals, by cross-multiplication.
RatLt(a, b) == a.n * b.d < b.n * a.d
RatLe(a, b) == a.n * b.d <= b.n * a.d
RatMax(a, b) == IF RatLt(a, b) THEN b ELSE a
RatMin(a, b) == IF RatLt(b, a) THEN b ELSE a

\* The request clipped against the box: lonMin = max(reqMinLon, minX),
\* lonMax = min(reqMaxLon, maxX), latMin = max(reqMinLat, minY),
\* latMax = min(reqMaxLat, maxY).
Clipped(t, r) ==
    [lonMin |-> RatMax(t.lonMin, r.bbox[1]), lonMax |-> RatMin(t.lonMax, r.bbox[3]),
     latMin |-> RatMax(t.latMin, r.bbox[2]), latMax |-> RatMin(t.latMax, r.bbox[4])]
EmptyClip(c) == RatLe(c.lonMax, c.lonMin) \/ RatLe(c.latMax, c.latMin)

(***************************************************************************)
(* C7.  A tile whose rectangle clipped to the box has lonMax <= lonMin or  *)
(* latMax <= latMin (for one, a tile entirely below minY) gets no raster   *)
(* read and is completed, without error, with an unpainted canvas.         *)
(***************************************************************************)
C7_EmptyTileIsBlank ==
    (InTile /\ EmptyClip(Clipped(tile, info))) =>
        /\ pc = "tileDone"
        /\ reads = <<>>
        /\ canvas = <<>>
        /\ doneCalls = <<"ok">>

\* A tile entirely below minY.
C7_Witness ==
    /\ pc = "tileDone" /\ NonDegenerate(info)
    /\ RatLt(tile.latMax, info.bbox[2])
    /\ RatLe(info.bbox[1], tile.lonMin) /\ RatLe(tile.lonMax, info.bbox[3])
    /\ reads = <<>> /\ canvas = <<>> /\ doneCalls = <<"ok">>

FloorOf(a) == a.n \div a.d
CeilOf(a)  == -((-a.n) \div a.d)
IntMax(i, j) == IF i < j THEN j ELSE i
IntMin(i, j) == IF j < i THEN j ELSE i

\* v is the image of coordinate g at distance (g - from) along an axis of
\* length (to - from) mapped onto size pixels: v * (to - from) = (g - from) * size.
IsAffineImage(v, g, from, to, size) ==
    v.n * (to.n - from.n) * g.d = (g.n - from.n * g.d) * size * v.d
IsAffineImageDown(v, g, from, to, size) ==
    v.n * (to.n - from.n) * g.d = (to.n * g.d - g.n) * size * v.d

C9_WindowCoversExtent ==
    (InTile /\ reads # <<>>) =>
        LET c == Clipped(tile, info)
        IN  /\ clip = c
            /\ \A k \in 1..4 : IsFinite(frac[k])
            /\ IsAffineImage(frac[1], c.lonMin, info.bbox[1], info.bbox[3], info.width)
            /\ IsAffineImage(frac[3], c.lonMax, info.bbox[1], info.bbox[3], info.width)
            /\ IsAffineImageDown(frac[2], c.latMax, info.bbox[2], info.bbox[4], info.height)
            /\ IsAffineImageDown(frac[4], c.latMin, info.bbox[2], info.bbox[4], info.height)
            /\ win = << FromInt(IntMax(0, FloorOf(frac[1]))),
                        FromInt(IntMax(0, FloorOf(frac[2]))),
                        FromInt(IntMin(info.width, CeilOf(frac[3]))),
                        FromInt(IntMin(info.height, CeilOf(frac[4]))) >>
            /\ reads = <<win>>
            /\ RatLe(win[1], frac[1]) /\ RatLe(frac[3], win[3])
            /\ RatLe(win[2], frac[2]) /\ RatLe(frac[4], win[4])

\* A near edge and a far edge that fall strictly between pixel edges.
C9_Witness ==
    /\ pc = "tileRead"
    /\ frac[1].d > 1 /\ frac[4].d > 1
    /\ RatLt(win[1], frac[1]) /\ RatLt(frac[4], win[4])

(***************************************************************************)
(* C10.  Per-tile normalization: when the band read for a tile holds no    *)
(* valid value, or all its valid values are equal (min = max, such as      *)
(* every value 7), the tile is completed with no pixel painted and the     *)
(* division by (max - min) is never evaluated.                             *)
(***************************************************************************)
ValidValues(b) == { b[i] : i \in { j \in 1..Len(b) : b[j].k = "num" } }

C10_FeaturelessIsBlank ==
    (pc = "tileDone" /\ band # <<>> /\ Cardinality(ValidValues(band)) <= 1) =>
        /\ canvas = <<>>
        /\ normDivs = 0
        /\ doneCalls = <<"ok">>

\* Every value of the band is 7.
C10_Witness ==
    /\ pc = "tileDone"
    /\ band = [i \in 1..BandLen |-> FromInt(7)]
    /\ canvas = <<>> /\ normDivs = 0 /\ doneCalls = <<"ok">>

(***************************************************************************)
(* The load / clear / click handlers of the grid-layer pages (map.js       *)
(* 61-123 and 488-567, part_003 233-300) over openGeoTIFF (geotiff.js      *)
(* 9-27, part_003 61-83).  A handler runs from its event, or from the      *)
(* settling of the promise it awaits, to its next suspension on the        *)
(* network; an await of a value already at hand does not let another       *)
(* handler in.                                                             *)
(***************************************************************************)
\* The raster every URL of the page opens to, and the (lat, lon) of the
\* clicks: one inside it, one west of it.
PageRaster ==
    [width |-> MaxDim, height |-> MaxDim,
     bbox |-> <<FromInt(0), FromInt(0), FromInt(MaxCoord), FromInt(MaxCoord)>>]
PageClicks == { <<FromInt(1), FromInt(1)>>, <<FromInt(1), FromInt(-1)>> }

\* sampleValueEl.textContent of the click handler's catch branch
ErrorText == IF variant = "p3" THEN Text("Err") ELSE Text("Error")

\* if (activeLayer) map.removeLayer(activeLayer)
withoutActive == layersOnMap \ {activeLayer}

\* The Load handler once createGeoTiffGridLayer has resolved:
\*   activeLayer = layer; activeLayerMeta = { url, variable }; layer.addTo(map)
layerLoaded(id, url, variable, onMap) ==
    /\ activeLayer' = id
    /\ activeLayerMeta' = [url |-> url, variable |-> variable]
    /\ layersOnMap' = onMap \cup {id}

\* sampleGeoTIFFAtLatLng from the opened record r to the return of its
\* guard (the handler shows 'No data') or to the suspension on readRasters.
sampleStart(id, t, la, lo, r) ==
    LET p == latLonToPixel(lo, la, PageRaster.bbox, PageRaster.width, PageRaster.height)
    IN  IF sampleGuard(p, PageRaster.width, PageRaster.height)
        THEN /\ sampleValueEl' = Text("No data")
             /\ tasks' = [tasks EXCEPT ![id] = [t EXCEPT !.pos = "done", !.rec = r]]
        ELSE /\ tasks' = [tasks EXCEPT ![id] =
                            [t EXCEPT !.pos = "read", !.nReads = @ + 1, !.rec = r]]
             /\ UNCHANGED sampleValueEl

\* What the click handler writes for the value raw of a raster of variable.
shown(r, variable) ==
    IF r = Null \/ IsNaN(r)
    THEN Text("No data")
    ELSE [text |-> "value", scaled |-> toFixed4(JsMul(r, multiplier(variable))), raw |-> r]

\* variableEl / depthEl change
selectVariable(v) ==
    /\ variableEl' = v
    /\ UNCHANGED <<depthEl, uiVars, tiles, altVars, rasterVars, sliderVars>>

selectDepth(d) ==
    /\ depthEl' = d
    /\ UNCHANGED <<variableEl, uiVars, tiles, altVars, rasterVars, sliderVars>>

\* loadBtn click with variableEl.value = variable and depthEl.value = depth,
\* to the suspension on GeoTIFF.fromUrl or, the URL being in the cache, to
\* the end of the handler.
loadBtnClick(variable, depth) ==
    /\ events < MaxEvents
    /\ LET id == events + 1
           url == cogUrlFor(variable, depth)
           t == [NoTask EXCEPT !.kind = "load", !.url = url, !.variable = variable]
       IN  /\ events' = id
           /\ IF geoTiffCache[url] # 0
              THEN /\ layerLoaded(id, url, variable, withoutActive)
                   /\ tasks' = [tasks EXCEPT ![id] =
                                  [t EXCEPT !.pos = "done", !.rec = geoTiffCache[url]]]
                   /\ UNCHANGED fromUrlCalls
              ELSE /\ layersOnMap' = withoutActive
                   /\ activeLayer' = 0
                   /\ activeLayerMeta' =
                         IF variant = "p3" /\ activeLayer # 0 THEN NoMeta ELSE activeLayerMeta
                   /\ fromUrlCalls' = [fromUrlCalls EXCEPT ![url] = @ + 1]
                   /\ tasks' = [tasks EXCEPT ![id] = [t EXCEPT !.pos = "open"]]
    /\ variableEl' = variable
    /\ depthEl' = depth
    /\ UNCHANGED <<variant, sampleValueEl, geoTiffCache, tiles, altVars, rasterVars, sliderVars>>

\* clearBtn click
clearBtnClick ==
    /\ events < MaxEvents
    /\ events' = events + 1
    /\ tasks' = [tasks EXCEPT ![events + 1] = [NoTask EXCEPT !.kind = "clear", !.pos = "done"]]
    /\ layersOnMap' = withoutActive
    /\ activeLayerMeta' =
          IF variant = "p3" /\ activeLayer = 0 THEN activeLayerMeta ELSE NoMeta
    /\ activeLayer' = 0
    /\ sampleValueEl' = Dash
    /\ UNCHANGED <<variant, geoTiffCache, fromUrlCalls, selVars, tiles, altVars, rasterVars, sliderVars>>

\* map click, to the handler's first suspension or to its end.
mapClick(la, lo) ==
    /\ events < MaxEvents
    /\ LET id == events + 1
           t == [NoTask EXCEPT !.kind = "click", !.url = activeLayerMeta.url,
                               !.variable = activeLayerMeta.variable]
       IN  /\ events' = id
           /\ IF activeLayerMeta = NoMeta
              THEN /\ sampleValueEl' = Text("No layer loaded")
                   /\ tasks' = [tasks EXCEPT ![id] = [t EXCEPT !.pos = "done"]]
                   /\ UNCHANGED fromUrlCalls
              ELSE IF geoTiffCache[t.url] = 0
              THEN /\ fromUrlCalls' = [fromUrlCalls EXCEPT ![t.url] = @ + 1]
                   /\ tasks' = [tasks EXCEPT ![id] = [t EXCEPT !.pos = "open", !.at = <<la, lo>>]]
                   /\ UNCHANGED sampleValueEl
              ELSE /\ sampleStart(id, t, la, lo, geoTiffCache[t.url])
                   /\ UNCHANGED fromUrlCalls
    /\ UNCHANGED <<variant, activeLayer, activeLayerMeta, layersOnMap, geoTiffCache,
                   selVars, tiles, altVars, rasterVars, sliderVars>>

\* GeoTIFF.fromUrl and tiff.getImage resolve: openGeoTIFF stores the record
\* and the handler that awaited it goes on.
openResolves(id) ==
    /\ tasks[id].pos = "open"
    /\ LET t == tasks[id]
       IN  /\ geoTiffCache' = [geoTiffCache EXCEPT ![t.url] = id]
           /\ IF t.kind = "load"
              THEN /\ layerLoaded(id, t.url, t.variable, layersOnMap)
                   /\ tasks' = [tasks EXCEPT ![id] = [t EXCEPT !.pos = "done", !.rec = id]]
                   /\ UNCHANGED sampleValueEl
              ELSE /\ sampleStart(id, [t EXCEPT !.at = <<>>], t.at[1], t.at[2], id)
                   /\ UNCHANGED <<activeLayer, activeLayerMeta, layersOnMap>>
    /\ UNCHANGED <<variant, fromUrlCalls, events, selVars, tiles, altVars, rasterVars, sliderVars>>

\* The open rejects: the Load handler alerts, the click handler shows the
\* error text.
openRejects(id) ==
    /\ tasks[id].pos = "open"
    /\ tasks' = [tasks EXCEPT ![id] = [@ EXCEPT !.pos = "failed", !.at = <<>>]]
    /\ sampleValueEl' = IF tasks[id].kind = "click" THEN ErrorText ELSE sampleValueEl
    /\ UNCHANGED <<variant, activeLayer, activeLayerMeta, layersOnMap, geoTiffCache,
                   fromUrlCalls, events, selVars, tiles, altVars, rasterVars, sliderVars>>

\* Variant: the read attempted a second time after a rejection.
readRejects_retry(id) ==
    /\ tasks[id].pos = "read"
    /\ tasks' = [tasks EXCEPT ![id] = [@ EXCEPT !.nReads = @ + 1, !.pos = "failed"]]
    /\ sampleValueEl' = ErrorText
    /\ UNCHANGED <<variant, activeLayer, activeLayerMeta, layersOnMap, geoTiffCache,
                   fromUrlCalls, events, selVars, tiles, altVars, rasterVars, sliderVars>>

\* image.readRasters of a click resolves with rs.
readResolves(id, rs) ==
    /\ tasks[id].pos = "read"
    /\ tasks' = [tasks EXCEPT ![id] = [@ EXCEPT !.pos = "done"]]
    /\ sampleValueEl' = shown(sampleResult(rs), tasks[id].variable)
    /\ UNCHANGED <<variant, activeLayer, activeLayerMeta, layersOnMap, geoTiffCache,
                   fromUrlCalls, events, selVars, tiles, altVars, rasterVars, sliderVars>>

\* image.readRasters of a click rejects: the rejection leaves
\* sampleGeoTIFFAtLatLng and reaches the handler's catch.
readRejects(id) ==
    /\ tasks[id].pos = "read"
    /\ tasks' = [tasks EXCEPT ![id] = [@ EXCEPT !.pos = "failed"]]
    /\ sampleValueEl' = ErrorText
    /\ UNCHANGED <<variant, activeLayer, activeLayerMeta, layersOnMap, geoTiffCache,
                   fromUrlCalls, events, selVars, tiles, altVars, rasterVars, sliderVars>>

InitUI ==
    /\ info = PageRaster
    /\ RasterIdle
    /\ variant \in Variants
    /\ PageIdle
    /\ SliderIdle

NextUI ==
    \/ \E v \in Variables, d \in Depths : loadBtnClick(v, d)
    \/ clearBtnClick
    \/ \E c \in PageClicks : mapClick(c[1], c[2])
    \/ \E id \in 1..MaxEvents : openResolves(id)
    \/ \E id \in 1..MaxEvents : openRejects(id)
    \/ \E id \in 1..MaxEvents, rs \in PixelReads : readResolves(id, rs)
    \/ \E id \in 1..MaxEvents : readRejects(id)

SpecUI == InitUI /\ [][NextUI]_vars

(***************************************************************************)
(* Vocabulary of the page properties.                                      *)
(***************************************************************************)
Events == 1..MaxEvents

\* The click c was followed by another click, by a Clear or by the Load of
\* a different raster.
Superseded(c) ==
    \E e \in (c + 1)..events :
        \/ tasks[e].kind \in {"click", "clear"}
        \/ tasks[e].kind = "load" /\ tasks[e].url # tasks[c].url

\* The read of click c settles in this step.
ReadSettles(c) ==
    tasks[c].kind = "click" /\ tasks[c].pos = "read" /\ tasks'[c].pos # "read"

(***************************************************************************)
(* C11.  A superseded sample request is discarded: when the read of a      *)
(* click settles after the user clicked again, cleared the layer or        *)
(* loaded a different raster, the read-out is left as it is; hence once    *)
(* all reads have settled the read-out is that of the most recent event,   *)
(* in whatever order the reads completed.                                  *)
(***************************************************************************)
C11_SupersededIsDiscarded ==
    [][\A c \in Events :
          (ReadSettles(c) /\ Superseded(c)) => sampleValueEl' = sampleValueEl]_vars

(***************************************************************************)
(* Several createTile calls of one layer in flight (geotiff.js 78-180,     *)
(* part_003 145-215).  Each call owns its canvas, its context and its      *)
(* minv / maxv; the layer's info is read only.                             *)
(***************************************************************************)
\* createTile calls of one run.
MaxTiles == 2

\* The rectangles of four neighbouring map tiles: two columns across the
\* raster's west part, the upper row over the raster, the lower row
\* entirely south of it.
GridTiles ==
    { [lonMin |-> FromInt(x), lonMax |-> FromInt(x + 2),
       latMin |-> FromInt(y), latMax |-> FromInt(y + 2)] :
         x \in {-1, 1}, y \in {-3, -1} }

\* A createTile call: its rectangle, its window, its position ("read":
\* suspended on image.readRasters), the band it was given, its canvas
\* (<<>> while nothing was put on it) and the calls of its done callback.
TileCall(t, w, p, d) ==
    [rect |-> t, win |-> w, pos |-> p, band |-> <<>>, canvas |-> <<>>, doneCalls |-> d]

\* createTile(coords, done) for the rectangle t.
gridCreateTile(t) ==
    /\ Len(tiles) < MaxTiles
    /\ LET c == clampToBbox(t, info.bbox)
           f == pixelExtent(c, info.bbox, info.width, info.height)
       IN  tiles' = Append(tiles,
                      IF tileOutside(c)
                      THEN TileCall(t, NoQuad, "done", <<"ok">>)
                      ELSE TileCall(t, integerWindow(f, info.width, info.height),
                                    "read", <<>>))
    /\ UNCHANGED <<selVars, uiVars, altVars, rasterVars, sliderVars>>

\* The pixels the call puts on its canvas for the band b, <<>> when it
\* returns before painting.
tileImage(b) ==
    LET minv == scanMin(b, Len(b))
        maxv == scanMax(b, Len(b))
    IN  IF featureless(minv, maxv)
        THEN <<>>
        ELSE [i \in 1..Len(b) |-> paintPixel(b[i], minv, maxv)]

\* Variant: canvas and context declared once for the layer, so that a
\* completion paints the canvas of the call made last.
tileReadResolves_shared(i, b) ==
    /\ i \in 1..Len(tiles)
    /\ tiles[i].pos = "read"
    /\ tiles' = [[tiles EXCEPT ![i] = [@ EXCEPT !.pos = "done", !.band = b,
                                                !.doneCalls = Append(@, "ok")]]
                    EXCEPT ![Len(tiles)] = [@ EXCEPT !.canvas = tileImage(b)]]
    /\ UNCHANGED <<selVars, uiVars, altVars, rasterVars, sliderVars>>

\* readRasters of call i resolves with the band b.
tileReadResolves(i, b) ==
    /\ i \in 1..Len(tiles)
    /\ tiles[i].pos = "read"
    /\ tiles' = [tiles EXCEPT ![i] = [@ EXCEPT !.pos = "done", !.band = b,
                                               !.canvas = tileImage(b),
                                               !.doneCalls = Append(@, "ok")]]
    /\ UNCHANGED <<selVars, uiVars, altVars, rasterVars, sliderVars>>

\* readRasters of call i rejects: done(err, tile).
tileReadRejects(i) ==
    /\ i \in 1..Len(tiles)
    /\ tiles[i].pos = "read"
    /\ tiles' = [tiles EXCEPT ![i] = [@ EXCEPT !.pos = "failed",
                                               !.doneCalls = Append(@, "err")]]
    /\ UNCHANGED <<selVars, uiVars, altVars, rasterVars, sliderVars>>

InitTiles ==
    /\ info = PageRaster
    /\ RasterIdle
    /\ variant = "map"
    /\ PageIdle
    /\ SliderIdle

NextTiles ==
    \/ \E t \in GridTiles : gridCreateTile(t)
    \/ \E i \in 1..MaxTiles, b \in TileBands : tileReadResolves(i, b)
    \/ \E i \in 1..MaxTiles : tileReadRejects(i)

SpecTiles == InitTiles /\ [][NextTiles]_vars

(***************************************************************************)
(* C12.  Concurrent tile requests are independent: whatever the order in   *)
(* which the reads of the tiles in flight complete, a tile whose read is   *)
(* pending has an untouched canvas, and a completed tile's canvas holds    *)
(* the min-max stretch of its own band and nothing else.                   *)
(***************************************************************************)
\* Least and greatest of a non-empty set of rationals.
LeastOf(S) == CHOOSE a \in S : \A b \in S : RatLe(a, b)
GreatestOf(S) == CHOOSE a \in S : \A b \in S : RatLe(b, a)

\* round(255 * (v - lo) / (hi - lo)) for lo <= v <= hi, lo < hi.
GreyOf(v, lo, hi) ==
    LET num == 255 * (v.n * lo.d - lo.n * v.d) * hi.d
        den == v.d * (hi.n * lo.d - lo.n * hi.d)
    IN  (2 * num + den) \div (2 * den)

\* The canvas a tile owes to its band alone.
StretchOf(b) ==
    LET S == ValidValues(b)
    IN  IF Cardinality(S) <= 1
        THEN <<>>
        ELSE [i \in 1..Len(b) |->
                IF b[i].k = "num"
                THEN [c |-> GreyOf(b[i], LeastOf(S), GreatestOf(S)), a |-> tileAlpha]
                ELSE [c |-> 0, a |-> 0]]

C12_TilesAreIndependent ==
    \A i \in 1..Len(tiles) :
        LET t == tiles[i]
        IN  /\ t.pos = "read" => (t.canvas = <<>> /\ t.doneCalls = <<>>)
            /\ t.pos = "failed" => (t.canvas = <<>> /\ t.doneCalls = <<"err">>)
            /\ t.pos = "done" => (t.canvas = StretchOf(t.band) /\ t.doneCalls = <<"ok">>)

\* The tile requested last completed first and is painted, the earlier one
\* still waits for its read.
C12_Witness ==
    /\ Len(tiles) = MaxTiles
    /\ tiles[1].pos = "read"
    /\ tiles[Len(tiles)].pos = "done"
    /\ tiles[Len(tiles)].canvas # <<>>

(***************************************************************************)
(* C13.  When the raster read of a sample fails, the failure is propagated *)
(* without a retry (the click made exactly one readRasters call) and the   *)
(* click handler shows the error text in place of a value, leaving         *)
(* activeLayer, activeLayerMeta and the map's layers as they were.         *)
(***************************************************************************)
C13_ReadFailureShown ==
    [][\A c \in Events :
          /\ tasks'[c].nReads <= 1
          /\ (tasks[c].kind = "click" /\ tasks[c].pos = "read" /\ tasks'[c].pos = "failed")
                => /\ tasks'[c].nReads = 1
                   /\ sampleValueEl' = ErrorText
                   /\ activeLayer' = activeLayer
                   /\ activeLayerMeta' = activeLayerMeta
                   /\ layersOnMap' = layersOnMap]_vars

\* A click on the displayed layer whose read was rejected.
C13_Witness ==
    \E c \in Events :
        /\ tasks[c].kind = "click" /\ tasks[c].pos = "failed" /\ tasks[c].nReads = 1
        /\ sampleValueEl = ErrorText
        /\ activeLayer # 0 /\ activeLayerMeta # NoMeta

(***************************************************************************)
(* C14.  No partial-window tolerance: a tile whose window read fails is    *)
(* completed with the error and an unpainted canvas; a tile completed      *)
(* without error is either unpainted or painted from a whole band, one     *)
(* pixel per sample.                                                       *)
(***************************************************************************)
\* The tile's read was issued and did not hand over a band.
TileReadFailed == pc = "tileDone" /\ reads # <<>> /\ band = <<>>

C14_FailedTileIsWhole ==
    /\ TileReadFailed => (canvas = <<>> /\ doneCalls = <<"err">>)
    /\ (pc = "tileDone" /\ doneCalls = <<"ok">> /\ canvas # <<>>)
          => (Len(band) = BandLen /\ Len(canvas) = Len(band))

C14_Witness ==
    /\ TileReadFailed
    /\ canvas = <<>> /\ doneCalls = <<"err">> /\ Len(reads) = 1

(***************************************************************************)
(* C15.  The opened-raster record is shared and immutable once opened:     *)
(* under any interleaving of the handlers' openGeoTIFF calls, each URL is  *)
(* opened with GeoTIFF.fromUrl at most once, and every caller holds the    *)
(* record the cache stores for its URL (the stored record is never         *)
(* replaced by another).                                                   *)
(***************************************************************************)
C15_OpenedOnce ==
    /\ \A u \in Urls : fromUrlCalls[u] <= 1
    /\ \A c \in Events : tasks[c].rec # 0 => tasks[c].rec = geoTiffCache[tasks[c].url]

(***************************************************************************)
(* C18.  In the grid-layer pages at most one raster layer is on the map    *)
(* and it is the one activeLayer holds, under any interleaving of Load     *)
(* clicks (a second Load while the first is still opening included) and    *)
(* Clear clicks: every layer added and no longer activeLayer was removed.  *)
(***************************************************************************)
C18_OneLayerOnMap == layersOnMap \subseteq ({activeLayer} \ {0})

(***************************************************************************)
(* C19.  In every reachable state of the load / clear / click handlers     *)
(* activeLayerMeta is non-null exactly when activeLayer is non-null, so    *)
(* that a click samples only while a layer is displayed.                   *)
(***************************************************************************)
C19_MetaIffLayer == (activeLayerMeta # NoMeta) <=> (activeLayer # 0)

\* The same for the handlers of part_003, which clear both together.
MetaIffLayerInPart003 == variant = "p3" => C19_MetaIffLayer

(***************************************************************************)
(* The georaster page (part_003 302-496): loadAndDisplay and onMapClick.   *)
(* The layer a load creates is named by the load's number in the event     *)
(* log; the click's sample comes from the layer's own georaster.           *)
(***************************************************************************)
\* MULTIPLIERS[variable] || 1
MULTIPLIERS(variable) ==
    CASE variable = "TN" -> Num(1, 100)
      [] variable = "TP" -> Num(1, 1000)
      [] variable = "TK" -> Num(1, 100)
      [] OTHER -> FromInt(1)

\* buildFilename(variable, depth): one file name per (variable, depth).
buildFilename(variable, depth) == <<variable, depth>>

Loading == Button(TRUE, "Loading...")
Idle == Button(FALSE, "Load / Refresh")

\* loadBtn click: loadAndDisplay(varSelect.value, depthSelect.value) up to
\* await testURL(url).  A disabled button delivers no click.
geoLoadBtnClick ==
    /\ ~loadBtn.disabled
    /\ events < MaxEvents
    /\ events' = events + 1
    /\ currentFilename' = buildFilename(variableEl, depthEl)
    /\ loadBtn' = Loading
    /\ tasks' = [tasks EXCEPT ![events + 1] =
                   [NoTask EXCEPT !.kind = "load", !.variable = variableEl,
                                  !.url = buildFilename(variableEl, depthEl),
                                  !.pos = "head"]]
    /\ UNCHANGED <<selVars, variant, activeLayer, activeLayerMeta, layersOnMap,
                   sampleValueEl, geoTiffCache, fromUrlCalls, tiles, geoLayer,
                   lastImage, rasterVars, sliderVars>>

\* The load's position moves on; the page is otherwise untouched.
geoStep(id, pos) ==
    /\ tasks' = [tasks EXCEPT ![id] = [@ EXCEPT !.pos = pos]]
    /\ UNCHANGED <<selVars, variant, activeLayer, activeLayerMeta, sampleValueEl,
                   geoTiffCache, fromUrlCalls, events, tiles, currentFilename,
                   lastImage, rasterVars, sliderVars>>

\* Variant: the HEAD failure returns without resetting the button.
testURLResolves_noReset(id, ok) ==
    /\ tasks[id].kind = "load" /\ tasks[id].pos = "head"
    /\ IF ok THEN geoStep(id, "fetch") ELSE geoStep(id, "failed")
    /\ UNCHANGED <<loadBtn, geoLayer, layersOnMap>>

\* testURL resolves: { ok: head.ok }, or { ok: false } when the HEAD request
\* threw.  Not ok: alert, the button reset, return.
testURLResolves(id, ok) ==
    /\ tasks[id].kind = "load" /\ tasks[id].pos = "head"
    /\ IF ok
       THEN geoStep(id, "fetch") /\ UNCHANGED loadBtn
       ELSE geoStep(id, "failed") /\ loadBtn' = Idle
    /\ UNCHANGED <<geoLayer, layersOnMap>>

\* fetch(url) resolves: a response that is not ok throws into the catch,
\* after which the button is reset.
fetchResolves(id, ok) ==
    /\ tasks[id].kind = "load" /\ tasks[id].pos = "fetch"
    /\ IF ok
       THEN geoStep(id, "buffer") /\ UNCHANGED loadBtn
       ELSE geoStep(id, "failed") /\ loadBtn' = Idle
    /\ UNCHANGED <<geoLayer, layersOnMap>>

\* resp.arrayBuffer() resolves.
arrayBufferResolves(id) ==
    /\ tasks[id].kind = "load" /\ tasks[id].pos = "buffer"
    /\ geoStep(id, "parse")
    /\ UNCHANGED <<loadBtn, geoLayer, layersOnMap>>

\* fetch, arrayBuffer or parseGeoraster rejects: catch, alert, and the
\* button is reset.
downloadRejects(id) ==
    /\ tasks[id].kind = "load" /\ tasks[id].pos \in {"fetch", "buffer", "parse"}
    /\ geoStep(id, "failed")
    /\ loadBtn' = Idle
    /\ UNCHANGED <<geoLayer, layersOnMap>>

\* parseGeoraster resolves: the held layer is removed, the new one created
\* and added, the click handler registered, the button reset.
parseResolves(id) ==
    /\ tasks[id].kind = "load" /\ tasks[id].pos = "parse"
    /\ geoStep(id, "done")
    /\ layersOnMap' = (layersOnMap \ {geoLayer}) \cup {id}
    /\ geoLayer' = id
    /\ loadBtn' = Idle

\* parseGeoraster resolves and the held layer is removed (geoLayer = null),
\* then new GeoRasterLayer(...) or geoLayer.addTo(map) throws: catch, alert,
\* and the button is reset.
layerThrows(id) ==
    /\ tasks[id].kind = "load" /\ tasks[id].pos = "parse"
    /\ geoStep(id, "failed")
    /\ layersOnMap' = layersOnMap \ {geoLayer}
    /\ geoLayer' = 0
    /\ loadBtn' = Idle

\* map click: onMapClick up to await geoLayer.getValueAtLatLng, which reads
\* the georaster of the layer held at the click.  The handler returns at
\* once when no layer is held or the layer has no getValueAtLatLng.
onMapClick(hasGetValue) ==
    /\ events < MaxEvents
    /\ events' = events + 1
    /\ tasks' = [tasks EXCEPT ![events + 1] =
                   IF geoLayer = 0 \/ ~hasGetValue
                   THEN [NoTask EXCEPT !.kind = "click", !.pos = "done"]
                   ELSE [NoTask EXCEPT !.kind = "click", !.pos = "read",
                                       !.url = tasks[geoLayer].url,
                                       !.variable = tasks[geoLayer].variable,
                                       !.nReads = 1]]
    /\ UNCHANGED <<selVars, variant, activeLayer, activeLayerMeta, layersOnMap,
                   sampleValueEl, geoTiffCache, fromUrlCalls, tiles, altVars, rasterVars, sliderVars>>

\* getValueAtLatLng resolves with rawVal: the popup shows
\* (rawVal * multiplier).toFixed(4) for the variable selected now.
getValueResolves(id, rawVal) ==
    /\ tasks[id].kind = "click" /\ tasks[id].pos = "read"
    /\ tasks' = [tasks EXCEPT ![id] = [@ EXCEPT !.pos = "done"]]
    /\ sampleValueEl' =
          [text |-> "value",
           scaled |-> toFixed4(JsMul(rawVal, MULTIPLIERS(variableEl))),
           raw |-> rawVal]
    /\ UNCHANGED <<selVars, variant, activeLayer, activeLayerMeta, layersOnMap,
                   geoTiffCache, fromUrlCalls, events, tiles, altVars, rasterVars, sliderVars>>

\* getValueAtLatLng rejects: console.warn, no popup.
getValueRejects(id) ==
    /\ tasks[id].kind = "click" /\ tasks[id].pos = "read"
    /\ tasks' = [tasks EXCEPT ![id] = [@ EXCEPT !.pos = "failed"]]
    /\ UNCHANGED <<selVars, variant, activeLayer, activeLayerMeta, layersOnMap,
                   sampleValueEl, geoTiffCache, fromUrlCalls, events, tiles, altVars,
                   rasterVars, sliderVars>>

\* The page once init() has run: TN and K1 selected and the first
\* loadAndDisplay suspended on testURL.
InitGeo ==
    /\ info = PageRaster
    /\ RasterIdle
    /\ variant = "p3"
    /\ variableEl = "TN" /\ depthEl = "K1"
    /\ activeLayer = 0 /\ activeLayerMeta = NoMeta /\ layersOnMap = {}
    /\ sampleValueEl = Dash
    /\ geoTiffCache = [u \in Urls |-> 0]
    /\ fromUrlCalls = [u \in Urls |-> 0]
    /\ tasks = [i \in 1..MaxEvents |->
                  IF i = 1
                  THEN [NoTask EXCEPT !.kind = "load", !.variable = "TN",
                                      !.url = buildFilename("TN", "K1"), !.pos = "head"]
                  ELSE NoTask]
    /\ events = 1
    /\ tiles = <<>>
    /\ geoLayer = 0
    /\ loadBtn = Loading
    /\ currentFilename = buildFilename("TN", "K1")
    /\ lastImage = <<>>
    /\ SliderIdle

NextGeo ==
    \/ \E v \in Variables : selectVariable(v)
    \/ \E d \in Depths : selectDepth(d)
    \/ geoLoadBtnClick
    \/ \E id \in 1..MaxEvents, ok \in BOOLEAN : testURLResolves(id, ok)
    \/ \E id \in 1..MaxEvents, ok \in BOOLEAN : fetchResolves(id, ok)
    \/ \E id \in 1..MaxEvents : arrayBufferResolves(id)
    \/ \E id \in 1..MaxEvents : downloadRejects(id)
    \/ \E id \in 1..MaxEvents : parseResolves(id)
    \/ \E id \in 1..MaxEvents : layerThrows(id)
    \/ \E has \in BOOLEAN : onMapClick(has)
    \/ \E id \in 1..MaxEvents, v \in SampleValues : getValueResolves(id, v)
    \/ \E id \in 1..MaxEvents : getValueRejects(id)

SpecGeo == InitGeo /\ [][NextGeo]_vars

(***************************************************************************)
(* C16.  The value displayed for a click is the raw sample multiplied by   *)
(* the multiplier of the variable of the raster that was sampled (TN 0.01, *)
(* TP 0.001, TK 0.01), whatever variable is selected when the value is     *)
(* shown.                                                                  *)
(***************************************************************************)
\* raw * 0.01 for TN and TK, raw * 0.001 for TP.
ScaledBy(r, variable) ==
    Num(r.n * (IF variable = "TP" THEN 1 ELSE 10), r.d * 1000)

C16_ScaledBySampledVariable ==
    [][\A c \in Events :
          (/\ tasks[c].kind = "click" /\ tasks[c].pos = "read" /\ tasks'[c].pos = "done"
           /\ sampleValueEl'.text = "value" /\ IsFinite(sampleValueEl'.raw))
             => sampleValueEl'.scaled = ScaledBy(sampleValueEl'.raw, tasks[c].variable)]_vars

\* The same property of the grid-layer pages, whose click handler takes
\* the variable from activeLayerMeta: it holds under SpecUI.
ScaledInGridPages == C16_ScaledBySampledVariable

(***************************************************************************)
(* The last-opened-raster script (part_001): loadGeoTIFF, readPixelValue   *)
(* and the map click handler over the globals lastTiff / lastImage.        *)
(***************************************************************************)
\* The clicks of one run of the last-opened-raster script.
MaxClicks == 2

\* `cogs/${variable}_${depth}.tif`
lastUrlFor(variable, depth) == <<variable, depth>>

\* readPixelValue(lat, lon) with lastImage set to the image img, from its
\* call to the suspension on lastImage.readRasters: x and y are computed
\* and the window [x, y, x + 1, y + 1] is read, with no test of x and y.
readPixelValue(id, t, img) ==
    tasks' = [tasks EXCEPT ![id] =
                [t EXCEPT !.pos = "read", !.nReads = @ + 1, !.image = img,
                          !.window = pixelWindow(latLonToPixel(t.at[2], t.at[1],
                                        PageRaster.bbox, PageRaster.width,
                                        PageRaster.height))]]

\* map click at (la, lo): the selection is read, then loadGeoTIFF(url) is
\* awaited if no image was opened yet, else readPixelValue is called.
lastMapClick(la, lo) ==
    /\ events < MaxClicks
    /\ events' = events + 1
    /\ LET id == events + 1
           t == [NoTask EXCEPT !.kind = "click", !.variable = variableEl,
                               !.url = lastUrlFor(variableEl, depthEl),
                               !.at = <<la, lo>>]
       IN  IF lastImage = <<>>
           THEN tasks' = [tasks EXCEPT ![id] = [t EXCEPT !.pos = "open"]]
           ELSE readPixelValue(id, t, lastImage)
    /\ UNCHANGED <<selVars, variant, activeLayer, activeLayerMeta, layersOnMap,
                   sampleValueEl, geoTiffCache, fromUrlCalls, tiles, altVars, rasterVars, sliderVars>>

\* GeoTIFF.fromUrl and tiff.getImage resolve: lastImage = image, and the
\* handler goes on into readPixelValue, which uses lastImage.
loadGeoTIFFResolves(id) ==
    /\ tasks[id].kind = "click" /\ tasks[id].pos = "open"
    /\ lastImage' = tasks[id].url
    /\ readPixelValue(id, tasks[id], tasks[id].url)
    /\ UNCHANGED <<selVars, variant, activeLayer, activeLayerMeta, layersOnMap,
                   sampleValueEl, geoTiffCache, fromUrlCalls, events, tiles,
                   geoLayer, loadBtn, currentFilename, rasterVars, sliderVars>>

\* The open rejects: the handler has no catch and ends there.
loadGeoTIFFRejects(id) ==
    /\ tasks[id].kind = "click" /\ tasks[id].pos = "open"
    /\ tasks' = [tasks EXCEPT ![id] = [@ EXCEPT !.pos = "failed"]]
    /\ UNCHANGED <<selVars, variant, activeLayer, activeLayerMeta, layersOnMap,
                   sampleValueEl, geoTiffCache, fromUrlCalls, events, tiles, altVars,
                   rasterVars, sliderVars>>

\* readRasters resolves with data: data[0][0] is shown in the popup; with
\* no band at all data[0][0] throws and the handler ends without a popup.
readPixelValueResolves(id, data) ==
    /\ tasks[id].kind = "click" /\ tasks[id].pos = "read"
    /\ IF Len(data) = 0
       THEN /\ tasks' = [tasks EXCEPT ![id] = [@ EXCEPT !.pos = "failed"]]
            /\ UNCHANGED sampleValueEl
       ELSE /\ tasks' = [tasks EXCEPT ![id] = [@ EXCEPT !.pos = "done"]]
            /\ sampleValueEl' =
                  [text |-> "value", scaled |-> None,
                   raw |-> IF Len(data[1]) = 0 THEN Null ELSE data[1][1]]
    /\ UNCHANGED <<selVars, variant, activeLayer, activeLayerMeta, layersOnMap,
                   geoTiffCache, fromUrlCalls, events, tiles, altVars, rasterVars, sliderVars>>

\* readRasters rejects: the handler ends without a popup.
readPixelValueRejects(id) ==
    /\ tasks[id].kind = "click" /\ tasks[id].pos = "read"
    /\ tasks' = [tasks EXCEPT ![id] = [@ EXCEPT !.pos = "failed"]]
    /\ UNCHANGED <<selVars, variant, activeLayer, activeLayerMeta, layersOnMap,
                   sampleValueEl, geoTiffCache, fromUrlCalls, events, tiles, altVars,
                   rasterVars, sliderVars>>

InitLast ==
    /\ info = PageRaster
    /\ RasterIdle
    /\ variant = "p1"
    /\ PageIdle
    /\ SliderIdle

NextLast ==
    \/ \E v \in Variables : selectVariable(v)
    \/ \E d \in Depths : selectDepth(d)
    \/ \E c \in PageClicks : lastMapClick(c[1], c[2])
    \/ \E id \in 1..MaxEvents : loadGeoTIFFResolves(id)
    \/ \E id \in 1..MaxEvents : loadGeoTIFFRejects(id)
    \/ \E id \in 1..MaxEvents, data \in PixelReads : readPixelValueResolves(id, data)
    \/ \E id \in 1..MaxEvents : readPixelValueRejects(id)

SpecLast == InitLast /\ [][NextLast]_vars

\* C17: in the last-opened-raster script, a click whose computed pixel lies
\* outside the raster issues no read (readPixelValue gives no-data instead).
C17_NoReadOutOfBounds ==
    \A c \in Events :
        (/\ tasks[c].kind = "click"
         /\ tasks[c].at # <<>>
         /\ ~IsInBounds(latLonToPixel(tasks[c].at[2], tasks[c].at[1], PageRaster.bbox,
                                      PageRaster.width, PageRaster.height), PageRaster))
        => tasks[c].nReads = 0

\* C20: in the last-opened-raster script, every click reads from the raster
\* of the variable and depth that were selected when the click happened.
C20_SampledIsSelected ==
    \A c \in Events :
        (tasks[c].kind = "click" /\ tasks[c].nReads > 0)
        => tasks[c].image = tasks[c].url

(***************************************************************************)
(* The tile requests of one layer on their own, with the raster read of a  *)
(* tile settling eventually (the promise of image.readRasters resolves or  *)
(* rejects).                                                               *)
(***************************************************************************)
\* One opened raster, no request in progress.
InitTile ==
    /\ info = PageRaster
    /\ RasterIdle
    /\ variant = "map"
    /\ PageIdle
    /\ SliderIdle

NextTile ==
    \/ \E t \in TileRects : createTile(t)
    \/ \E b \in TileBands : TileReadOk(b)
    \/ TileReadFail
    \/ Finish

TileReadSettles == (\E b \in TileBands : TileReadOk(b)) \/ TileReadFail

SpecTileDone == InitTile /\ [][NextTile]_vars /\ WF_vars(TileReadSettles)

\* C21: every createTile call invokes done exactly once on each path (tile
\* outside the raster, featureless window, painted tile, read failure):
\* never twice, once when the call is over, and a tile waiting for its read
\* is completed once the read settles.
C21_DoneExactlyOnce ==
    /\ [](Len(doneCalls) <= 1)
    /\ [](pc = "tileDone" => Len(doneCalls) = 1)
    /\ [](pc = "tileRead" => Len(doneCalls) = 0)
    /\ (pc = "tileRead") ~> (pc = "tileDone")

C21_Witness ==
    pc = "tileDone" /\ reads # <<>> /\ band # <<>> /\ canvas = <<>> /\ Len(doneCalls) = 1

(***************************************************************************)
(* The loads of the georaster page on their own, every awaited promise of  *)
(* a load (testURL, fetch, arrayBuffer, parseGeoraster) settling.          *)
(***************************************************************************)
NextLoad ==
    \/ \E v \in Variables : selectVariable(v)
    \/ \E d \in Depths : selectDepth(d)
    \/ geoLoadBtnClick
    \/ \E id \in 1..MaxEvents, ok \in BOOLEAN : testURLResolves(id, ok)
    \/ \E id \in 1..MaxEvents, ok \in BOOLEAN : fetchResolves(id, ok)
    \/ \E id \in 1..MaxEvents : arrayBufferResolves(id)
    \/ \E id \in 1..MaxEvents : downloadRejects(id)
    \/ \E id \in 1..MaxEvents : parseResolves(id)
    \/ \E id \in 1..MaxEvents : layerThrows(id)

LoadSettles ==
    \E id \in 1..MaxEvents :
        \/ \E ok \in BOOLEAN : testURLResolves(id, ok)
        \/ \E ok \in BOOLEAN : fetchResolves(id, ok)
        \/ arrayBufferResolves(id)
        \/ downloadRejects(id)
        \/ parseResolves(id)
        \/ layerThrows(id)

SpecLoad == InitGeo /\ [][NextLoad]_vars /\ WF_vars(LoadSettles)

\* A load that has started and has not settled.
LoadInFlight(c) ==
    tasks[c].kind = "load" /\ tasks[c].pos \in {"head", "fetch", "buffer", "parse"}

\* C22: in loadAndDisplay the Load button is disabled (label "Loading...")
\* while a load is in flight and enabled with its idle label otherwise, so
\* at most one load is in flight; and once disabled it is re-enabled with
\* the idle label on every path, the awaited promises settling.
C22_ButtonGuardsLoad ==
    /\ [](\A c \in Events : LoadInFlight(c) => loadBtn = Loading)
    /\ []((\A c \in Events : ~LoadInFlight(c)) => loadBtn = Idle)
    /\ [](Cardinality({c \in Events : LoadInFlight(c)}) <= 1)
    /\ loadBtn.disabled ~> (loadBtn = Idle)

\* A second load failed on its HEAD check and the button is idle again.
C22_Witness ==
    /\ loadBtn = Idle
    /\ \E c \in Events : tasks[c].kind = "load" /\ tasks[c].pos = "done"
    /\ \E c \in Events : tasks[c].kind = "load" /\ tasks[c].pos = "failed"

\* At most one raster layer is on the map of the georaster page, and it is
\* the one geoLayer refers to.
OneLayerInGeoPage ==
    /\ Cardinality(layersOnMap) <= 1
    /\ layersOnMap \subseteq ({geoLayer} \ {0})

\* C23: in the georaster page at most one raster layer is on the map after
\* any sequence of loads: a successful load leaves its own layer as the only
\* one, and a failed load leaves the layer displayed before it on the map
\* and referenced by geoLayer.
C23_FailedLoadKeepsLayer ==
    [][/\ Cardinality(layersOnMap') <= 1
       /\ \A c \in Events :
            /\ (LoadInFlight(c) /\ tasks'[c].pos = "done")
               => (layersOnMap' = {c} /\ geoLayer' = c)
            /\ (LoadInFlight(c) /\ tasks'[c].pos = "failed")
               => (layersOnMap' = layersOnMap /\ geoLayer' = geoLayer)]_vars

(***************************************************************************)
(* The opacity slider and the opacity of the grid layer the Load handler   *)
(* creates (map.js with geotiff.js).  The handler takes the slider's value *)
(* before it awaits createGeoTiffGridLayer.                                *)
(***************************************************************************)
\* The positions of the slider.
SliderValues == 0..100

\* Math.max(0, Math.min(1, opacityEl.value / 100))
sliderOpacity(value) ==
    MathMax(FromInt(0), MathMin(FromInt(1), JsDiv(FromInt(value), FromInt(100))))

\* const opacity = options.opacity || 1: undefined, NaN and 0 are falsy.
optionsOpacity(o) ==
    IF o = None \/ IsNaN(o) \/ JsEq(o, FromInt(0)) THEN FromInt(1) ELSE o

\* layer.setOpacity as replaced on the created layer:
\* this.options.opacity = Math.max(0, Math.min(1, op))
setOpacity(op) == MathMax(FromInt(0), MathMin(FromInt(1), op))

\* 'input' on the slider: the held layer, if any, gets the new opacity.
opacityInput(s) ==
    /\ opacityEl' = s
    /\ layerOpacity' = IF activeLayer # 0 THEN setOpacity(sliderOpacity(s))
                       ELSE layerOpacity
    /\ UNCHANGED <<selVars, uiVars, tiles, altVars, rasterVars>>

\* Load: the held layer is removed and createGeoTiffGridLayer(url,
\* {opacity}) creates the new one, calling Leaflet's layer.setOpacity(opacity)
\* (which stores it in options.opacity) before the replacement is installed.
opacityLoad ==
    /\ events < MaxEvents
    /\ events' = events + 1
    /\ activeLayer' = events + 1
    /\ layersOnMap' = {events + 1}
    /\ layerOpacity' = optionsOpacity(sliderOpacity(opacityEl))
    /\ UNCHANGED <<selVars, variant, activeLayerMeta, sampleValueEl, geoTiffCache,
                   fromUrlCalls, tasks, tiles, altVars, opacityEl, rasterVars>>

InitOpacity ==
    /\ info = PageRaster
    /\ RasterIdle
    /\ variant = "map"
    /\ PageIdle
    /\ opacityEl \in SliderValues
    /\ layerOpacity = None

NextOpacity ==
    \/ \E s \in SliderValues : opacityInput(s)
    \/ opacityLoad

SpecOpacity == InitOpacity /\ [][NextOpacity]_vars

\* s / 100 within [0, 1], as the exact rational the slider stands for.
ClampedFraction(s) ==
    IF s <= 0 THEN FromInt(0) ELSE IF s >= 100 THEN FromInt(1)
    ELSE JsDiv(FromInt(s), FromInt(100))

\* C24: the layer a Load creates has initial opacity s / 100 clamped to
\* [0, 1] for the slider value s at that Load; s = 0 gives opacity 0.
C24_InitialOpacity ==
    [][(activeLayer' # activeLayer /\ activeLayer' # 0)
       => layerOpacity' = ClampedFraction(opacityEl)]_vars

\* Every slider value but 0 gives the layer the clamped fraction.
InitialOpacityAboveZero ==
    [][(activeLayer' # activeLayer /\ activeLayer' # 0 /\ opacityEl # 0)
       => layerOpacity' = ClampedFraction(opacityEl)]_vars

====
